---------------------------- MODULE Spec2Model ----------------------------
(***************************************************************************)
(* Model of create-diag.py: the Mermaid diagram generator.                 *)
(*                                                                         *)
(* A Python str is a sequence of one-character strings.  A line of the     *)
(* output is a record [kind, id, label, to]; Render gives its text.        *)
(* The iteration order of the Python set `nodes` depends on the hash seed  *)
(* of the interpreter; summarize_hosts is therefore given the iteration    *)
(* order as a permutation of the set, chosen freely at each call.          *)
(***************************************************************************)
EXTENDS Naturals, Sequences, FiniteSets, TLC

VARIABLES
    flows,               \* flows: List[Tuple[str, str]] filled by read_flows
    collapse_threshold,  \* args.number
    pc,                  \* "reading" | "done": position of main
    lines,               \* the lines of the latest generate_mermaid call
    collapsed_map        \* collapsed_map of the latest call

vars == <<flows, collapse_threshold, pc, lines, collapsed_map>>

(***************************************************************************)
(* Bounds of the model.                                                    *)
(***************************************************************************)
MaxFlows == 2
MaxThreshold == 2

(***************************************************************************)
(* Characters and strings.                                                 *)
(***************************************************************************)
UpperChars == <<"A","B","C","D","E","F","G","H","I","J","K","L","M",
                "N","O","P","Q","R","S","T","U","V","W","X","Y","Z">>
LowerChars == <<"a","b","c","d","e","f","g","h","i","j","k","l","m",
                "n","o","p","q","r","s","t","u","v","w","x","y","z">>
DigitChars == <<"0","1","2","3","4","5","6","7","8","9">>

\* The characters in code point order: the order Python compares str by.
CodePoints == <<" ", "\"", "(", ")", "-">> \o DigitChars \o <<">">> \o UpperChars
              \o <<"[", "]", "_">> \o LowerChars

RangeOf(s) == { s[i] : i \in 1..Len(s) }

IndexIn(c, s) == CHOOSE i \in 1..Len(s) : s[i] = c

\* ord(): the rank of each character of CodePoints
OrdOf == [ c \in RangeOf(CodePoints) |-> IndexIn(c, CodePoints) ]

Ord(c) == OrdOf[c]

UpperSet == RangeOf(UpperChars)
LetterSet == RangeOf(UpperChars) \cup RangeOf(LowerChars)
DigitSet == RangeOf(DigitChars)

\* [a-z] under re.IGNORECASE
IsLetter(c) == c \in LetterSet

\* \d
IsDigit(c) == c \in DigitSet

LowerOf == [ c \in UpperSet |-> LowerChars[IndexIn(c, UpperChars)] ]

\* str.lower() on one character
LowerChar(c) == IF c \in UpperSet THEN LowerOf[c] ELSE c

\* str.lower()
StrLower(s) == [ i \in 1..Len(s) |-> LowerChar(s[i]) ]

\* sub in s
Contains(s, sub) ==
    \E i \in 1..(Len(s) + 1) :
        /\ i + Len(sub) - 1 <= Len(s)
        /\ \A j \in 1..Len(sub) : s[i + j - 1] = sub[j]

\* s.replace(a, b) for one-character a and b
Replace(s, a, b) == [ i \in 1..Len(s) |-> IF s[i] = a THEN b ELSE s[i] ]

\* s < t in Python's order on str
StrLess(s, t) ==
    \/ /\ Len(s) < Len(t)
       /\ \A j \in 1..Len(s) : s[j] = t[j]
    \/ \E i \in 1..Len(s) :
        /\ i <= Len(t)
        /\ \A j \in 1..(i - 1) : s[j] = t[j]
        /\ Ord(s[i]) < Ord(t[i])

\* [a-z]+ from position i on: the length of the longest run of letters
RECURSIVE LetterRun(_, _)
LetterRun(s, i) ==
    IF i <= Len(s) /\ IsLetter(s[i]) THEN 1 + LetterRun(s, i + 1) ELSE 0

\* \d+ from position i on: the length of the longest run of digits
RECURSIVE DigitRun(_, _)
DigitRun(s, i) ==
    IF i <= Len(s) /\ IsDigit(s[i]) THEN 1 + DigitRun(s, i + 1) ELSE 0

None == <<>>

(***************************************************************************)
(* parse_hostname: re.match(r"p-([a-z]+)-([a-z]+)(\d+)", hostname,         *)
(* re.IGNORECASE).  The match is anchored at the start only; each group is *)
(* the longest run of its class, since no class shares a character with    *)
(* what follows it in the pattern.  The result is <<data_center, function, *)
(* serial>> in the case of the input, or None.                             *)
(***************************************************************************)
parse_hostname(hostname) ==
    IF ~ (Len(hostname) >= 2 /\ LowerChar(hostname[1]) = "p" /\ hostname[2] = "-")
    THEN None
    ELSE
        LET dcLen == LetterRun(hostname, 3)
            dash == 3 + dcLen
        IN  IF dcLen = 0 \/ dash > Len(hostname) \/ hostname[dash] # "-"
            THEN None
            ELSE
                LET fnLen == LetterRun(hostname, dash + 1)
                    serLen == DigitRun(hostname, dash + 1 + fnLen)
                IN  IF fnLen = 0 \/ serLen = 0
                    THEN None
                    ELSE << SubSeq(hostname, 3, dash - 1),
                            SubSeq(hostname, dash + 1, dash + fnLen),
                            SubSeq(hostname, dash + fnLen + 1, dash + fnLen + serLen) >>

(***************************************************************************)
(* The node names the rows of the input are drawn from.  A CSV file names  *)
(* the hosts of one family.                                                *)
(***************************************************************************)
NameFamilies ==
    { { <<"p","-","a","-","i","d","x","1">>,        \* Indexer, a
        <<"p","-","a","-","i","d","x","2">>,        \* Indexer, a
        <<"p","-","a","-","s","y","s","k","1">>,    \* Syslog koncernet, a
        <<"S","y","s">> },                          \* not a hostname
      { <<"p","-","a","-","i","d","x","1">>,        \* Indexer, a
        <<"P","-","B","-","S","Y","S","K","1">>,    \* SYSK (not in function_map), B
        <<"p","-","a","-","i","d","x">>,            \* no serial: not a hostname
        <<"I","n","d","e","x","e","r","_","a">> },  \* not a hostname
      { <<"p","-","a","-","i","d","x","1">>,        \* Indexer, a
        <<"p","-","a","-","i","d","x","2">>,        \* Indexer, a
        <<"p","-","a","-","i","d","x","1","0","-","x">>,  \* Indexer, a: serial 10
        <<"P","-","B","-","S","Y","S","K","1">> } } \* SYSK (not in function_map), B

NodeNames == UNION NameFamilies

\* parse_hostname on each node name of the input, computed once
ParsedNames == [ h \in NodeNames |-> parse_hostname(h) ]

Parsed(node) == ParsedNames[node]

\* a < b on each pair of node names, computed once
LessNames == [ a \in NodeNames |-> { b \in NodeNames : StrLess(a, b) } ]

NameLess(a, b) == b \in LessNames[a]

(***************************************************************************)
(* Dictionaries.  A dict whose order is never observed is a function; the  *)
(* nested dict `summary`, which is iterated, is a sequence in insertion    *)
(* order.                                                                  *)
(***************************************************************************)
EmptyDict == <<>>

\* d.get(k, default)
DictGet(d, k, default) == IF k \in DOMAIN d THEN d[k] ELSE default

\* function_map of generate_mermaid
function_map ==
    ( <<"s","y","s","k">> :>
        <<"S","y","s","l","o","g"," ","k","o","n","c","e","r","n","e","t">> )
    @@ ( <<"i","d","x">> :> <<"I","n","d","e","x","e","r">> )

\* summary[function_label][data_center].append(node) on the nested defaultdict
dc_dict_append(dc_dict, data_center, node) ==
    IF \E j \in 1..Len(dc_dict) : dc_dict[j].data_center = data_center
    THEN LET j == CHOOSE j \in 1..Len(dc_dict) : dc_dict[j].data_center = data_center
         IN  [dc_dict EXCEPT ![j].hosts = Append(@, node)]
    ELSE Append(dc_dict, [data_center |-> data_center, hosts |-> <<node>>])

summary_append(summary, function_label, data_center, node) ==
    IF \E i \in 1..Len(summary) : summary[i].function = function_label
    THEN LET i == CHOOSE i \in 1..Len(summary) : summary[i].function = function_label
         IN  [summary EXCEPT ![i].dc_dict = dc_dict_append(@, data_center, node)]
    ELSE Append(summary, [function |-> function_label,
                          dc_dict |-> dc_dict_append(<<>>, data_center, node)])

\* One iteration of the loop of summarize_hosts
summarize_node(summary, node, fmap) ==
    LET parsed == Parsed(node)
    IN  IF parsed # None
        THEN summary_append(summary, DictGet(fmap, parsed[2], parsed[2]), parsed[1], node)
        ELSE summary

\* summarize_hosts, `nodes` being the set in the order the loop iterates it
RECURSIVE summarize_from(_, _, _, _)
summarize_from(nodes, k, fmap, summary) ==
    IF k > Len(nodes) THEN summary
    ELSE summarize_from(nodes, k + 1, fmap, summarize_node(summary, nodes[k], fmap))

summarize_hosts(nodes, fmap) == summarize_from(nodes, 1, fmap, <<>>)

(***************************************************************************)
(* sorted()                                                                *)
(***************************************************************************)
SortedInsert(sorted, x) ==
    LET k == Cardinality({ i \in 1..Len(sorted) : ~ NameLess(x, sorted[i]) })
    IN  SubSeq(sorted, 1, k) \o <<x>> \o SubSeq(sorted, k + 1, Len(sorted))

RECURSIVE SortedFrom(_, _, _)
SortedFrom(list, k, sorted) ==
    IF k > Len(list) THEN sorted
    ELSE SortedFrom(list, k + 1, SortedInsert(sorted, list[k]))

Sorted(list) == SortedFrom(list, 1, <<>>)

(***************************************************************************)
(* The lines of the diagram.                                               *)
(***************************************************************************)
HeaderLine == [kind |-> "header", id |-> <<>>, label |-> <<>>, to |-> <<>>]
CollapsedDecl(collapsed_node, collapsed_label) ==
    [kind |-> "collapsed", id |-> collapsed_node, label |-> collapsed_label, to |-> <<>>]
SubgraphLine(subgraph_label) ==
    [kind |-> "subgraph", id |-> <<>>, label |-> subgraph_label, to |-> <<>>]
MemberDecl(node, label) == [kind |-> "member", id |-> node, label |-> label, to |-> <<>>]
EndLine == [kind |-> "end", id |-> <<>>, label |-> <<>>, to |-> <<>>]
StandaloneDecl(node, label) ==
    [kind |-> "standalone", id |-> node, label |-> label, to |-> <<>>]
EdgeLine(from_actual, to_actual) ==
    [kind |-> "edge", id |-> from_actual, label |-> <<>>, to |-> to_actual]

Indent == <<" ", " ", " ", " ">>
Quoted(s) == <<"\"">> \o s \o <<"\"">>

\* The text of a line, as the f-strings build it
Render(line) ==
    CASE line.kind = "header" ->
            <<"f","l","o","w","c","h","a","r","t"," ","T","D">>
      [] line.kind = "subgraph" ->
            Indent \o <<"s","u","b","g","r","a","p","h"," ">> \o line.label
      [] line.kind = "member" ->
            Indent \o Indent \o Quoted(line.id) \o <<"[">> \o Quoted(line.label) \o <<"]">>
      [] line.kind = "end" ->
            Indent \o <<"e","n","d">>
      [] line.kind = "edge" ->
            Indent \o Quoted(line.id) \o <<" ","-","-",">"," ">> \o Quoted(line.to)
      [] OTHER ->
            Indent \o Quoted(line.id) \o <<"[">> \o Quoted(line.label) \o <<"]">>

\* '\n'.join(lines)
RECURSIVE JoinFrom(_, _)
JoinFrom(ls, k) ==
    IF k > Len(ls) THEN <<>>
    ELSE (IF k > 1 THEN <<"\n">> ELSE <<>>) \o Render(ls[k]) \o JoinFrom(ls, k + 1)

Join(ls) == JoinFrom(ls, 1)

(***************************************************************************)
(* Labels.                                                                 *)
(***************************************************************************)
\* The marker checks on node.lower(), written twice in generate_mermaid
MarkerLabel(node) ==
    LET node_lower == StrLower(node)
    IN  IF Contains(node_lower, <<"s","y","s">>)
        THEN node \o <<" ","S","y","s","l","o","g">>
        ELSE IF Contains(node_lower, <<"i","d","x">>)
        THEN node \o <<" ","i","n","d","e","x","e","r">>
        ELSE node \o <<" ","h","o","s","t">>

\* The label of a member of a subgraph block: the else of `if parsed` holds
\* the marker checks, and a parsed node whose function is not in function_map
\* keeps label = node
MemberLabel(node) ==
    LET parsed == Parsed(node)
    IN  IF parsed # None
        THEN IF parsed[2] \in DOMAIN function_map
             THEN node \o <<" ">> \o function_map[parsed[2]]
             ELSE node
        ELSE MarkerLabel(node)

\* The labels of each node name of the input, computed once
MemberLabels == [ node \in NodeNames |-> MemberLabel(node) ]
MarkerLabels == [ node \in NodeNames |-> MarkerLabel(node) ]

(***************************************************************************)
(* generate_mermaid                                                        *)
(***************************************************************************)
\* nodes: the set of the from and to of every flow
NodesOf(fl) == { fl[k][1] : k \in 1..Len(fl) } \cup { fl[k][2] : k \in 1..Len(fl) }

\* Mutant of CollapsedNode: the function label is left out of the id
CollapsedNodeOfDataCenter(function, data_center) ==
    Replace(<<"_">> \o data_center, " ", "_")

\* f"{function}_{data_center}".replace(' ', '_')
CollapsedNode(function, data_center) ==
    Replace(function \o <<"_">> \o data_center, " ", "_")

\* f"{function} ({data_center})"
CollapsedLabel(function, data_center) ==
    function \o <<" ", "(">> \o data_center \o <<")">>

\* f"{function} - {data_center}"
SubgraphLabel(function, data_center) ==
    function \o <<" ", "-", " ">> \o data_center

\* for node in hosts: collapsed_map[node] = collapsed_node
CollapseHosts(cmap, hosts, collapsed_node) ==
    [ n \in (DOMAIN cmap) \cup RangeOf(hosts) |->
        IF n \in RangeOf(hosts) THEN collapsed_node ELSE cmap[n] ]

\* The lines of a subgraph block
SubgraphBlock(function, data_center, hosts) ==
    LET members == Sorted(hosts)
    IN  <<SubgraphLine(SubgraphLabel(function, data_center))>>
        \o [ k \in 1..Len(members) |-> MemberDecl(members[k], MemberLabels[members[k]]) ]
        \o <<EndLine>>

\* Mutant of EmitGroup: the comparison with the threshold is >= for >
EmitGroupAtLeast(function, data_center, hosts, threshold, acc) ==
    IF Len(hosts) >= threshold
    THEN [ lines |-> Append(acc.lines,
                            CollapsedDecl(CollapsedNode(function, data_center),
                                          CollapsedLabel(function, data_center))),
           collapsed_map |-> CollapseHosts(acc.collapsed_map, hosts,
                                           CollapsedNode(function, data_center)) ]
    ELSE [ lines |-> acc.lines \o SubgraphBlock(function, data_center, hosts),
           collapsed_map |-> acc.collapsed_map ]

\* The body of the loop over the groups; acc is [lines, collapsed_map]
EmitGroup(function, data_center, hosts, threshold, acc) ==
    IF Len(hosts) > threshold
    THEN [ lines |-> Append(acc.lines,
                            CollapsedDecl(CollapsedNode(function, data_center),
                                          CollapsedLabel(function, data_center))),
           collapsed_map |-> CollapseHosts(acc.collapsed_map, hosts,
                                           CollapsedNode(function, data_center)) ]
    ELSE [ lines |-> acc.lines \o SubgraphBlock(function, data_center, hosts),
           collapsed_map |-> acc.collapsed_map ]

\* for data_center, hosts in dc_dict.items()
RECURSIVE EmitDataCenters(_, _, _, _, _)
EmitDataCenters(function, dc_dict, j, threshold, acc) ==
    IF j > Len(dc_dict) THEN acc
    ELSE EmitDataCenters(function, dc_dict, j + 1, threshold,
            EmitGroup(function, dc_dict[j].data_center, dc_dict[j].hosts, threshold, acc))

\* for function, dc_dict in summary.items()
RECURSIVE EmitSummary(_, _, _, _)
EmitSummary(summary, i, threshold, acc) ==
    IF i > Len(summary) THEN acc
    ELSE EmitSummary(summary, i + 1, threshold,
            EmitDataCenters(summary[i].function, summary[i].dc_dict, 1, threshold, acc))

\* Mutant of StandaloneDecls: the test on parse_hostname is left out
StandaloneDeclsOfAll(nodes) ==
    LET rest == Sorted(nodes)
    IN  [ k \in 1..Len(rest) |-> StandaloneDecl(rest[k], MarkerLabels[rest[k]]) ]

\* Mutant of StandaloneDecls: the nodes are taken in the order of the set
StandaloneDeclsUnsorted(nodes) ==
    LET unparsed(node) == Parsed(node) = None
        rest == SelectSeq(nodes, unparsed)
    IN  [ k \in 1..Len(rest) |-> StandaloneDecl(rest[k], MarkerLabels[rest[k]]) ]

\* for node in sorted(nodes): if not parse_hostname(node): ...
StandaloneDecls(nodes) ==
    LET unparsed(node) == Parsed(node) = None
        rest == SelectSeq(Sorted(nodes), unparsed)
    IN  [ k \in 1..Len(rest) |-> StandaloneDecl(rest[k], MarkerLabels[rest[k]]) ]

\* Mutant of EmitEdges: edge_set is not consulted
RECURSIVE EmitEdgesRepeated(_, _, _, _, _)
EmitEdgesRepeated(fl, k, cmap, edge_set, ls) ==
    IF k > Len(fl) THEN ls
    ELSE
        LET from_actual == DictGet(cmap, fl[k][1], fl[k][1])
            to_actual == DictGet(cmap, fl[k][2], fl[k][2])
        IN  IF from_actual = to_actual
            THEN EmitEdgesRepeated(fl, k + 1, cmap, edge_set, ls)
            ELSE EmitEdgesRepeated(fl, k + 1, cmap, edge_set,
                                   Append(ls, EdgeLine(from_actual, to_actual)))

\* Mutant of EmitEdges: the duplicates are looked up by the original pair
RECURSIVE EmitEdgesByOriginal(_, _, _, _, _)
EmitEdgesByOriginal(fl, k, cmap, edge_set, ls) ==
    IF k > Len(fl) THEN ls
    ELSE
        LET from_actual == DictGet(cmap, fl[k][1], fl[k][1])
            to_actual == DictGet(cmap, fl[k][2], fl[k][2])
            edge == <<fl[k][1], fl[k][2]>>
        IN  IF from_actual = to_actual
            THEN EmitEdgesByOriginal(fl, k + 1, cmap, edge_set, ls)
            ELSE IF edge \notin edge_set
            THEN EmitEdgesByOriginal(fl, k + 1, cmap, edge_set \cup {edge},
                                     Append(ls, EdgeLine(from_actual, to_actual)))
            ELSE EmitEdgesByOriginal(fl, k + 1, cmap, edge_set, ls)

\* Mutant of EmitEdges: the destination is not redirected
RECURSIVE EmitEdgesToOriginal(_, _, _, _, _)
EmitEdgesToOriginal(fl, k, cmap, edge_set, ls) ==
    IF k > Len(fl) THEN ls
    ELSE
        LET from_actual == DictGet(cmap, fl[k][1], fl[k][1])
            to_actual == fl[k][2]
            edge == <<from_actual, to_actual>>
        IN  IF from_actual = to_actual
            THEN EmitEdgesToOriginal(fl, k + 1, cmap, edge_set, ls)
            ELSE IF edge \notin edge_set
            THEN EmitEdgesToOriginal(fl, k + 1, cmap, edge_set \cup {edge},
                                     Append(ls, EdgeLine(from_actual, to_actual)))
            ELSE EmitEdgesToOriginal(fl, k + 1, cmap, edge_set, ls)

\* The loop over the flows that defines the edges
RECURSIVE EmitEdges(_, _, _, _, _)
EmitEdges(fl, k, cmap, edge_set, ls) ==
    IF k > Len(fl) THEN ls
    ELSE
        LET from_actual == DictGet(cmap, fl[k][1], fl[k][1])
            to_actual == DictGet(cmap, fl[k][2], fl[k][2])
            edge == <<from_actual, to_actual>>
        IN  IF from_actual = to_actual
            THEN EmitEdges(fl, k + 1, cmap, edge_set, ls)
            ELSE IF edge \notin edge_set
            THEN EmitEdges(fl, k + 1, cmap, edge_set \cup {edge},
                           Append(ls, EdgeLine(from_actual, to_actual)))
            ELSE EmitEdges(fl, k + 1, cmap, edge_set, ls)

\* generate_mermaid(flows, collapse_threshold), `nodes` being the set of nodes
\* in the order summarize_hosts iterates it; the result is [lines, collapsed_map]
generate_mermaid(fl, threshold, nodes) ==
    LET summary == summarize_hosts(nodes, function_map)
        groups == EmitSummary(summary, 1, threshold,
                              [lines |-> <<HeaderLine>>, collapsed_map |-> EmptyDict])
        declared == groups.lines \o StandaloneDecls(nodes)
    IN  [ lines |-> EmitEdges(fl, 1, groups.collapsed_map, {}, declared),
          collapsed_map |-> groups.collapsed_map ]

\* The orders a set can be iterated in
RECURSIVE Orders(_)
Orders(S) ==
    IF S = {} THEN { <<>> }
    ELSE UNION { { <<x>> \o rest : rest \in Orders(S \ {x}) } : x \in S }

(***************************************************************************)
(* The program: main reads the rows of the CSV file, then calls            *)
(* generate_mermaid on the flows.                                          *)
(***************************************************************************)
Init ==
    /\ flows = <<>>
    /\ collapse_threshold \in 0..MaxThreshold
    /\ pc = "reading"
    /\ lines = <<>>
    /\ collapsed_map = EmptyDict

\* read_flows: flows.append((from_node, to_node)) for one row
ReadRow ==
    /\ pc = "reading"
    /\ Len(flows) < MaxFlows
    /\ \E family \in NameFamilies :
          /\ NodesOf(flows) \subseteq family
          /\ \E from_node \in family, to_node \in family :
                flows' = Append(flows, <<from_node, to_node>>)
    /\ UNCHANGED <<collapse_threshold, pc, lines, collapsed_map>>

\* A call generate_mermaid(flows, collapse_threshold=collapse_threshold)
Call ==
    /\ \E nodes \in Orders(NodesOf(flows)) :
          LET result == generate_mermaid(flows, collapse_threshold, nodes)
          IN  /\ lines' = result.lines
              /\ collapsed_map' = result.collapsed_map
    /\ pc' = "done"
    /\ UNCHANGED <<flows, collapse_threshold>>

\* main makes the call once the rows are read, and only if flows is not empty
Generate ==
    /\ pc = "reading"
    /\ flows # <<>>
    /\ Call

\* The program is run again on the same file with the same threshold
GenerateAgain ==
    /\ pc = "done"
    /\ Call

Next == ReadRow \/ Generate

Spec == Init /\ [][Next]_vars

NextAgain == ReadRow \/ Generate \/ GenerateAgain

SpecAgain == Init /\ [][NextAgain]_vars

(***************************************************************************)
(* Vocabulary of the properties: what the diagram is expected to hold for  *)
(* the flows that were read.                                               *)
(***************************************************************************)
Done == pc = "done"

Nodes == NodesOf(flows)

Classifies(n) == Parsed(n) # None

ClassifiedNodes == { n \in Nodes : Classifies(n) }

\* The mapped name if the function code is in the label map, else the raw code
FunctionLabelOf(n) ==
    LET code == Parsed(n)[2]
    IN  IF code \in DOMAIN function_map THEN function_map[code] ELSE code

DataCenterOf(n) == Parsed(n)[1]

GroupOf(n) == <<FunctionLabelOf(n), DataCenterOf(n)>>

Groups == { GroupOf(n) : n \in ClassifiedNodes }

MembersOf(g) == { n \in ClassifiedNodes : GroupOf(n) = g }

LinesOfKind(kind) == { k \in 1..Len(lines) : lines[k].kind = kind }

DeclLines == LinesOfKind("member") \cup LinesOfKind("collapsed") \cup LinesOfKind("standalone")

\* The collapse map extended by identity on the nodes that are not collapsed
Redirect(n) == IF n \in DOMAIN collapsed_map THEN collapsed_map[n] ELSE n

RedirectedFlow(k) == <<Redirect(flows[k][1]), Redirect(flows[k][2])>>

\* The lines of one kind, in the order of the output
LinesSeq(kind) == LET is(line) == line.kind = kind IN SelectSeq(lines, is)

\* The label rule of the spec, section 4.3
RuleLabel(n) ==
    IF Classifies(n) /\ Parsed(n)[2] \in DOMAIN function_map
    THEN n \o <<" ">> \o function_map[Parsed(n)[2]]
    ELSE IF Contains(StrLower(n), <<"s","y","s">>)
    THEN n \o <<" ","S","y","s","l","o","g">>
    ELSE IF Contains(StrLower(n), <<"i","d","x">>)
    THEN n \o <<" ","i","n","d","e","x","e","r">>
    ELSE n \o <<" ","h","o","s","t">>

(***************************************************************************)
(* C1  Node coverage: every node of the flows is covered by exactly one    *)
(* declared form: one member line of a subgraph block, or the one          *)
(* synthetic declaration of its collapsed group and no line of its own, or *)
(* one standalone line if it does not classify.                            *)
(***************************************************************************)
MemberCount(n) == Cardinality({ k \in LinesOfKind("member") : lines[k].id = n })
StandaloneCount(n) == Cardinality({ k \in LinesOfKind("standalone") : lines[k].id = n })
SyntheticCount(n) ==
    IF n \in DOMAIN collapsed_map
    THEN Cardinality({ k \in LinesOfKind("collapsed") : lines[k].id = collapsed_map[n] })
    ELSE 0

NodeCoverage ==
    Done => \A n \in Nodes :
        /\ MemberCount(n) + StandaloneCount(n) + SyntheticCount(n) = 1
        /\ StandaloneCount(n) = 1 <=> ~ Classifies(n)

NodeCoverageWitness ==
    /\ Done
    /\ \E a \in Nodes, b \in Nodes, c \in Nodes, d \in Nodes :
        /\ a # b
        /\ SyntheticCount(a) = 1 /\ SyntheticCount(b) = 1
        /\ collapsed_map[a] = collapsed_map[b]
        /\ MemberCount(c) = 1
        /\ StandaloneCount(d) = 1

(***************************************************************************)
(* C2  Edge de-duplication: no redirected (source, destination) pair is on *)
(* two edge lines, no edge line has equal source and destination; a flow   *)
(* inside one collapsed group and a flow (a, a) give no edge line.         *)
(***************************************************************************)
EdgeDedup ==
    Done =>
        /\ \A i \in LinesOfKind("edge"), j \in LinesOfKind("edge") :
              (lines[i].id = lines[j].id /\ lines[i].to = lines[j].to) => i = j
        /\ \A i \in LinesOfKind("edge") : lines[i].id # lines[i].to
        /\ \A k \in 1..Len(flows) :
              RedirectedFlow(k)[1] = RedirectedFlow(k)[2] =>
                  \A i \in LinesOfKind("edge") :
                      <<lines[i].id, lines[i].to>> # RedirectedFlow(k)

\* Two different flows are redirected to one pair, which is on one edge line
EdgeDedupWitness ==
    /\ Done
    /\ Len(flows) = 2
    /\ flows[1] # flows[2]
    /\ RedirectedFlow(1) = RedirectedFlow(2)
    /\ Cardinality(LinesOfKind("edge")) = 1

(***************************************************************************)
(* C3  Collapse threshold boundary: a group with at most collapse_threshold*)
(* members is a subgraph block with one declaration per member, a group    *)
(* with more members is one synthetic declaration.                         *)
(***************************************************************************)
GroupTitle(g) == g[1] \o <<" ", "-", " ">> \o g[2]
GroupSyntheticLabel(g) == g[1] \o <<" ", "(">> \o g[2] \o <<")">>

IsBlockAt(k, g) ==
    LET n == Cardinality(MembersOf(g))
    IN  /\ k + n + 1 <= Len(lines)
        /\ lines[k].kind = "subgraph"
        /\ lines[k].label = GroupTitle(g)
        /\ \A i \in 1..n : lines[k + i].kind = "member"
        /\ { lines[k + i].id : i \in 1..n } = MembersOf(g)
        /\ lines[k + n + 1].kind = "end"

SyntheticLinesOf(g) ==
    { k \in LinesOfKind("collapsed") : lines[k].label = GroupSyntheticLabel(g) }

RenderedAsBlock(g) ==
    /\ Cardinality({ k \in 1..Len(lines) : IsBlockAt(k, g) }) = 1
    /\ SyntheticLinesOf(g) = {}
    /\ \A n \in MembersOf(g) : n \notin DOMAIN collapsed_map

RenderedAsSynthetic(g) ==
    /\ Cardinality(SyntheticLinesOf(g)) = 1
    /\ \A k \in LinesOfKind("subgraph") : lines[k].label # GroupTitle(g)
    /\ \A n \in MembersOf(g) : MemberCount(n) = 0 /\ n \in DOMAIN collapsed_map

ThresholdBoundary ==
    Done => \A g \in Groups :
        IF Cardinality(MembersOf(g)) <= collapse_threshold
        THEN RenderedAsBlock(g)
        ELSE RenderedAsSynthetic(g)

\* A group of exactly collapse_threshold members and one of one member more
ThresholdBoundaryWitness ==
    /\ Done
    /\ collapse_threshold > 0
    /\ \E g \in Groups, h \in Groups :
        /\ Cardinality(MembersOf(g)) = collapse_threshold
        /\ RenderedAsBlock(g)
        /\ Cardinality(MembersOf(h)) = collapse_threshold + 1
        /\ RenderedAsSynthetic(h)

(***************************************************************************)
(* C4  Determinism: a call of generate_mermaid on the same flows and the   *)
(* same threshold yields the same lines as the call before it, whatever    *)
(* order the node set is iterated in.                                      *)
(***************************************************************************)
Determinism == [][Done => lines' = lines]_vars

(***************************************************************************)
(* C5  Collapse-map injectivity across groups: two distinct nodes mapped   *)
(* to one synthetic id have the same function label and the same data      *)
(* center; two different collapsed groups never share a synthetic id.      *)
(***************************************************************************)
CollapseInjective ==
    Done => \A a \in DOMAIN collapsed_map, b \in DOMAIN collapsed_map :
        (a # b /\ collapsed_map[a] = collapsed_map[b]) =>
            /\ FunctionLabelOf(a) = FunctionLabelOf(b)
            /\ DataCenterOf(a) = DataCenterOf(b)

\* Two nodes of one collapsed group, and a node of another collapsed group
\* whose function label holds a space
CollapseInjectiveWitness ==
    /\ Done
    /\ \E a \in DOMAIN collapsed_map, b \in DOMAIN collapsed_map,
          c \in DOMAIN collapsed_map :
        /\ a # b
        /\ collapsed_map[a] = collapsed_map[b]
        /\ collapsed_map[c] # collapsed_map[a]
        /\ " " \in RangeOf(FunctionLabelOf(c))

(***************************************************************************)
(* C6  Label rule for the members of a subgraph block: the mapped function *)
(* name if the function code is in the label map, else Syslog, indexer or  *)
(* host by the markers; never the bare node name.                          *)
(***************************************************************************)
MemberLabelRule ==
    Done => \A k \in LinesOfKind("member") : lines[k].label = RuleLabel(lines[k].id)

(***************************************************************************)
(* C7  Standalone declarations: the nodes that do not classify, and only   *)
(* they, get one standalone declaration each, after all the group blocks   *)
(* and synthetic declarations, in lexicographic order, labelled Syslog,    *)
(* indexer or host by the markers.                                         *)
(***************************************************************************)
StandaloneRule ==
    Done =>
        LET alone == LinesSeq("standalone")
        IN  /\ { alone[i].id : i \in 1..Len(alone) } = Nodes \ ClassifiedNodes
            /\ \A i \in 1..Len(alone), j \in 1..Len(alone) :
                  i < j => StrLess(alone[i].id, alone[j].id)
            /\ \A i \in 1..Len(alone) :
                  /\ alone[i].label = RuleLabel(alone[i].id)
                  /\ alone[i].label # alone[i].id
            /\ \A i \in LinesOfKind("standalone"), j \in 1..Len(lines) :
                  lines[j].kind \in {"header", "subgraph", "member", "end", "collapsed"}
                      => j < i

\* Two standalone declarations with different labels, after a group
StandaloneRuleWitness ==
    /\ Done
    /\ Cardinality(LinesOfKind("standalone")) >= 2
    /\ \E i \in LinesOfKind("standalone"), j \in LinesOfKind("standalone") :
          /\ Contains(lines[i].label, <<" ","h","o","s","t">>)
          /\ ~ Contains(lines[j].label, <<" ","h","o","s","t">>)
    /\ LinesOfKind("collapsed") \cup LinesOfKind("subgraph") # {}

(***************************************************************************)
(* C8  Edge completeness and order: the edge lines are the distinct        *)
(* redirected pairs with different ends, in the order of their first       *)
(* occurrence in the flows, after the header and every declaration.        *)
(***************************************************************************)
FirstOccurrences ==
    { k \in 1..Len(flows) :
        /\ RedirectedFlow(k)[1] # RedirectedFlow(k)[2]
        /\ \A j \in 1..(k - 1) : RedirectedFlow(j) # RedirectedFlow(k) }

\* The k-th smallest element of a set of numbers
Nth(S, k) == CHOOSE x \in S : Cardinality({ y \in S : y < x }) = k - 1

ExpectedEdges ==
    [ i \in 1..Cardinality(FirstOccurrences) |-> RedirectedFlow(Nth(FirstOccurrences, i)) ]

EdgeOrder ==
    Done =>
        LET edges == LinesSeq("edge")
        IN  /\ [ i \in 1..Len(edges) |-> <<edges[i].id, edges[i].to>> ] = ExpectedEdges
            /\ lines[1].kind = "header"
            /\ \A i \in LinesOfKind("edge"), j \in 1..Len(lines) :
                  lines[j].kind # "edge" => j < i

\* Two edge lines, one of them redirected, after some declaration
EdgeOrderWitness ==
    /\ Done
    /\ Cardinality(LinesOfKind("edge")) = 2
    /\ \E k \in 1..Len(flows) :
          /\ k \in FirstOccurrences
          /\ RedirectedFlow(k) # flows[k]
    /\ DeclLines # {}

(***************************************************************************)
(* C9  No dangling edge endpoints: the source and the destination of every *)
(* edge line are ids of declaration lines, and neither is a member of a    *)
(* collapsed group.                                                        *)
(***************************************************************************)
DeclIds == { lines[k].id : k \in DeclLines }

NoDanglingEdge ==
    Done => \A i \in LinesOfKind("edge") :
        /\ lines[i].id \in DeclIds
        /\ lines[i].to \in DeclIds
        /\ lines[i].id \notin DOMAIN collapsed_map
        /\ lines[i].to \notin DOMAIN collapsed_map

\* An edge line from a synthetic node to a node declared on its own
NoDanglingEdgeWitness ==
    /\ Done
    /\ \E i \in LinesOfKind("edge") :
          /\ \E k \in LinesOfKind("collapsed") : lines[k].id = lines[i].id
          /\ \E k \in LinesOfKind("member") \cup LinesOfKind("standalone") :
                lines[k].id = lines[i].to

(***************************************************************************)
(* C10  Declared ids are unique: no two declaration lines carry the same   *)
(* id, so a flow between a member of a collapsed group and a node outside  *)
(* the group is never suppressed as a self-loop.                           *)
(***************************************************************************)
UniqueDeclIds ==
    Done =>
        /\ \A i \in DeclLines, j \in DeclLines : lines[i].id = lines[j].id => i = j
        /\ \A k \in 1..Len(flows) :
              ( /\ flows[k][1] \in DOMAIN collapsed_map
                /\ flows[k][2] \notin DOMAIN collapsed_map )
                  => \E i \in LinesOfKind("edge") : lines[i].id = collapsed_map[flows[k][1]]

=============================================================================
